---- MODULE Spec2Model ----
(***************************************************************************)
(* A model of HashUnionFindSets (src/src/collections/                      *)
(* hash_union_find_sets.rs): a disjoint-set forest over hashable keys,     *)
(* with union by size and full path compression.                           *)
(*                                                                         *)
(* Every key owns exactly one reference-counted cell, created by           *)
(* UnionFindNode::new when the key is added and never replaced, so a cell  *)
(* is named here by the key it was created for: `items[k]` is the content  *)
(* of k's cell, and a Child's `parent` is the key whose cell it points to. *)
(* Node identity (Rc::ptr_eq) is therefore equality of these names.        *)
(*                                                                         *)
(* The second part models the Z algorithm of src/src/z.rs: update_state    *)
(* and the two iterators built on it, LongestPrefixLengths and             *)
(* ZMatchIndices.  The third part models ModP of src/src/modulo/modp.rs    *)
(* and the fourth to_range of src/src/range.rs.  The parts share nothing;  *)
(* each specification runs one of them and leaves the others untouched.    *)
(***************************************************************************)
EXTENDS Integers, Sequences, FiniteSets, TLC

\* Keys are 1..MaxKey; the keys not yet added are the missing ones.
MaxKey == 4

Keys == 1..MaxKey

\* the longest iterator a forest is collected from
MaxIter == 3

\* the sequences over S of length at most n
SeqsUpTo(S, n) == UNION {[1..k -> S] : k \in 0..n}

VARIABLES
    set_count,  \* HashUnionFindSets.set_count
    items,      \* HashUnionFindSets.items: added key -> content of its cell
    last,       \* the last call made: its name, arguments and returned value
    prev,       \* set_count and items as they were before the last call
    history,    \* the keys connected by the unite calls made so far
    ok_unites,  \* how many unite calls returned Ok(true)
    sets_count, \* sets.rs, HashUnionFindSets.set_count
    sets_items, \* sets.rs, HashUnionFindSets.items: added key -> its node
    sets_heap,  \* sets.rs, the cells the nodes share: cell -> its content
    sets_last,  \* sets.rs, the value the last call returned
    iter,       \* which iterator of z.rs is in use, "none" for the forest
    text,       \* LongestPrefixLengths.text
    concat,     \* ZMatchIndices.concat
    pattern_len,\* ZMatchIndices.pattern_len
    z_box,      \* the z_box field of the iterator in use
    z_table,    \* the z_table field of the iterator in use
    z_in,       \* the text and pattern the iterator was made from
    z_out,      \* what the calls of next() returned, in order
    z_steps,    \* the update_state calls made by the last new() or next()
    z_cmp,      \* how many element comparisons were made so far
    overflow_checks, \* whether the build panics on integer overflow
    MODULUS,    \* static mut MODULUS
    acc,        \* the ModP number the caller holds
    modp_last,  \* the call on ModP that just returned: its name, operands
                \* and result; [op |-> "none"] between two calls
    range_in,   \* the bounds and the len handed to to_range
    range_out   \* what to_range returned

forest_vars == <<set_count, items, last, prev, history, ok_unites>>

z_vars == <<iter, text, concat, pattern_len, z_box, z_table,
            z_in, z_out, z_steps, z_cmp>>

modp_vars == <<overflow_checks, MODULUS, acc, modp_last>>

range_vars == <<range_in, range_out>>

num_vars == <<modp_vars, range_vars>>

sets_vars == <<sets_count, sets_items, sets_heap, sets_last>>

vars == <<forest_vars, sets_vars, z_vars, num_vars>>

\* the forest of sets.rs is not in use
NoSets ==
    /\ sets_count = 0
    /\ sets_items = <<>>
    /\ sets_heap = <<>>
    /\ sets_last = TRUE

\* no ModP number exists and no modulus was set
NoModP ==
    /\ overflow_checks = FALSE
    /\ MODULUS = 0
    /\ acc = [tag |-> "None"]
    /\ modp_last = [op |-> "none"]

\* to_range is not in use
NoRange ==
    /\ range_in = [op |-> "none"]
    /\ range_out = [tag |-> "None"]

\* no iterator of z.rs is in use
NoIterator ==
    /\ iter = "none"
    /\ text = <<>>
    /\ concat = <<>>
    /\ pattern_len = 0
    /\ z_box = [start |-> 0, end |-> 0]
    /\ z_table = <<>>
    /\ z_in = [text |-> <<>>, pattern |-> <<>>]
    /\ z_out = <<>>
    /\ z_steps = <<>>
    /\ z_cmp = 0

----------------------------------------------------------------------------
\* UnionFindNodeInner and the values the methods return

Root(len) == [tag |-> "Root", len |-> len]

Child(parent) == [tag |-> "Child", parent |-> parent]

Ok(v) == [tag |-> "Ok", val |-> v]

Err(msg) == [tag |-> "Err", msg |-> msg]

\* UnionFindNode::new: a fresh cell holding Root { len: 1 }
new_node == Root(1)

\* error_msg: the text, and the items it formats into it, in order
error_msg(its) ==
    IF Len(its) = 1
    THEN [text |-> "no set contains {:?}", args |-> its]
    ELSE [text |-> "no set contains {:?} and no set contains {:?}", args |-> its]

----------------------------------------------------------------------------
\* find, with its inner function go

\* go writing a copy of the root's content into the node instead of a Child
\* pointing at the root
RECURSIVE go_copies_root(_, _)
go_copies_root(heap, node) ==
    IF heap[node].tag = "Root"
    THEN [heap |-> heap, root |-> node, len |-> heap[node].len]
    ELSE LET r == go_copies_root(heap, heap[node].parent)
         IN  [heap |-> [r.heap EXCEPT ![node] = r.heap[r.root]],
              root |-> r.root, len |-> r.len]

\* go without the write as the recursion unwinds: no Child is rewritten
RECURSIVE go_without_rewrite(_, _)
go_without_rewrite(heap, node) ==
    IF heap[node].tag = "Root"
    THEN [heap |-> heap, root |-> node, len |-> heap[node].len]
    ELSE go_without_rewrite(heap, heap[node].parent)

\* go(node): the root of node's tree and the len stored in it; every Child
\* met on the way is rewritten to point at that root as the recursion unwinds.
RECURSIVE go(_, _)
go(heap, node) ==
    IF heap[node].tag = "Root"
    THEN [heap |-> heap, root |-> node, len |-> heap[node].len]
    ELSE LET r == go(heap, heap[node].parent)
         IN  [heap |-> [r.heap EXCEPT ![node] = Child(r.root)],
              root |-> r.root, len |-> r.len]

\* find(item): None when the item was never added, else Some(go(its cell))
find(heap, item) ==
    IF item \in DOMAIN heap
    THEN LET r == go(heap, item)
         IN  [some |-> TRUE, heap |-> r.heap, root |-> r.root, len |-> r.len]
    ELSE [some |-> FALSE, heap |-> heap]

\* (self.find(item1), self.find(item2)): the tuple is evaluated left to right
find_both(heap, item1, item2) ==
    LET f1 == find(heap, item1)
        f2 == find(f1.heap, item2)
    IN  [first |-> f1, second |-> f2, heap |-> f2.heap]

\* the Err arms with the two single-key messages exchanged
not_found_swapped(f1, f2, item1, item2) ==
    IF f1.some /\ ~f2.some THEN Err(error_msg(<<item1>>))
    ELSE IF ~f1.some /\ f2.some THEN Err(error_msg(<<item2>>))
    ELSE Err(error_msg(<<item1, item2>>))

\* the Err arms shared by set_eq and unite
not_found(f1, f2, item1, item2) ==
    IF f1.some /\ ~f2.some THEN Err(error_msg(<<item2>>))
    ELSE IF ~f1.some /\ f2.some THEN Err(error_msg(<<item1>>))
    ELSE Err(error_msg(<<item1, item2>>))

----------------------------------------------------------------------------
\* the methods, as functions from the object's fields to its new fields and
\* the returned value

count(sc, heap) == sc

items_len(sc, heap) == Cardinality(DOMAIN heap)

\* add without the contains_key test: the key is inserted again
add_overwrite(sc, heap, item) ==
    [set_count |-> sc + 1,
     items |-> [k \in DOMAIN heap \cup {item} |->
                   IF k = item THEN new_node ELSE heap[k]],
     ret |-> TRUE]

\* add without `self.set_count += 1`
add_no_count(sc, heap, item) ==
    IF item \in DOMAIN heap
    THEN [set_count |-> sc, items |-> heap, ret |-> FALSE]
    ELSE [set_count |-> sc,
          items |-> [k \in DOMAIN heap \cup {item} |->
                        IF k = item THEN new_node ELSE heap[k]],
          ret |-> TRUE]

add(sc, heap, item) ==
    IF item \in DOMAIN heap
    THEN [set_count |-> sc, items |-> heap, ret |-> FALSE]
    ELSE [set_count |-> sc + 1,
          items |-> [k \in DOMAIN heap \cup {item} |->
                        IF k = item THEN new_node ELSE heap[k]],
          ret |-> TRUE]

len_of(sc, heap, item) ==
    LET f == find(heap, item)
    IN  [set_count |-> sc, items |-> f.heap,
         ret |-> IF f.some THEN Ok(f.len) ELSE Err(error_msg(<<item>>))]

\* set_eq comparing the lens found instead of the roots
set_eq_by_len(sc, heap, item1, item2) ==
    LET fs == find_both(heap, item1, item2)
    IN  [set_count |-> sc, items |-> fs.heap,
         ret |-> IF fs.first.some /\ fs.second.some
                 THEN Ok(fs.first.len = fs.second.len)
                 ELSE not_found(fs.first, fs.second, item1, item2)]

set_eq(sc, heap, item1, item2) ==
    LET fs == find_both(heap, item1, item2)
    IN  [set_count |-> sc, items |-> fs.heap,
         ret |-> IF fs.first.some /\ fs.second.some
                 THEN Ok(fs.first.root = fs.second.root)
                 ELSE not_found(fs.first, fs.second, item1, item2)]

\* the comparison reversed: the larger root becomes the Child
second_is_root_reversed(len1, len2) == len1 > len2

\* the comparison with <=: on a tie root1 becomes the Child
second_is_root_on_tie(len1, len2) == len1 <= len2

\* no comparison of sizes: root1 always becomes the Child of root2
second_is_root_always(len1, len2) == TRUE

\* `if len1 < len2`: TRUE when root2 stays the Root and root1 becomes the Child
second_is_root(len1, len2) == len1 < len2

\* merge with root_node bound to &root1 in both branches
merge_parent_is_first(heap, root1, len1, root2, len2) ==
    LET root  == IF len1 < len2 THEN root2 ELSE root1
        child == IF len1 < len2 THEN root1 ELSE root2
    IN  [heap EXCEPT ![root] = Root(len1 + len2), ![child] = Child(root1)]

\* merge storing len1 + 1 instead of len1 + len2
merge_len_plus_one(heap, root1, len1, root2, len2) ==
    LET root  == IF len1 < len2 THEN root2 ELSE root1
        child == IF len1 < len2 THEN root1 ELSE root2
    IN  [heap EXCEPT ![root] = Root(len1 + 1), ![child] = Child(root)]

\* merge without the write to the child: both roots stay Root
merge_root_only(heap, root1, len1, root2, len2) ==
    LET root == IF len1 < len2 THEN root2 ELSE root1
    IN  [heap EXCEPT ![root] = Root(len1 + len2)]

\* the two writes of the merge: the surviving root gets the summed len, the
\* other root becomes its Child
merge(heap, root1, len1, root2, len2) ==
    LET root  == IF second_is_root(len1, len2) THEN root2 ELSE root1
        child == IF second_is_root(len1, len2) THEN root1 ELSE root2
    IN  [heap EXCEPT ![root] = Root(len1 + len2), ![child] = Child(root)]

\* unite with `self.set_count -= 1` before the test root1 == root2
unite_counts_early(sc, heap, item1, item2) ==
    LET fs == find_both(heap, item1, item2)
        f1 == fs.first
        f2 == fs.second
    IN  IF f1.some /\ f2.some
        THEN IF f1.root = f2.root
             THEN [set_count |-> sc - 1, items |-> fs.heap, ret |-> Ok(FALSE)]
             ELSE [set_count |-> sc - 1,
                   items |-> merge(fs.heap, f1.root, f1.len, f2.root, f2.len),
                   ret |-> Ok(TRUE)]
        ELSE [set_count |-> sc, items |-> fs.heap,
              ret |-> not_found(f1, f2, item1, item2)]

\* unite with `self.set_count -= 1` before the match on the two finds
unite_counts_first(sc, heap, item1, item2) ==
    LET fs == find_both(heap, item1, item2)
        f1 == fs.first
        f2 == fs.second
    IN  IF f1.some /\ f2.some
        THEN IF f1.root = f2.root
             THEN [set_count |-> sc - 1, items |-> fs.heap, ret |-> Ok(FALSE)]
             ELSE [set_count |-> sc - 1,
                   items |-> merge(fs.heap, f1.root, f1.len, f2.root, f2.len),
                   ret |-> Ok(TRUE)]
        ELSE [set_count |-> sc - 1, items |-> fs.heap,
              ret |-> not_found(f1, f2, item1, item2)]

unite(sc, heap, item1, item2) ==
    LET fs == find_both(heap, item1, item2)
        f1 == fs.first
        f2 == fs.second
    IN  IF f1.some /\ f2.some
        THEN IF f1.root = f2.root
             THEN [set_count |-> sc, items |-> fs.heap, ret |-> Ok(FALSE)]
             ELSE [set_count |-> sc - 1,
                   items |-> merge(fs.heap, f1.root, f1.len, f2.root, f2.len),
                   ret |-> Ok(TRUE)]
        ELSE [set_count |-> sc, items |-> fs.heap,
              ret |-> not_found(f1, f2, item1, item2)]

\* HashMap::insert: a key already present keeps its place and gets the value
insert(heap, key, value) ==
    [k \in DOMAIN heap \cup {key} |-> IF k = key THEN value ELSE heap[k]]

\* .map(|x| (x, UnionFindNode::new())).collect::<HashMap<_, _>>()
RECURSIVE collect(_, _)
collect(heap, input) ==
    IF input = <<>> THEN heap
    ELSE collect(insert(heap, Head(input), new_node), Tail(input))

\* from_iter with set_count taken from the iterator's length
from_iter_counts_input(input) ==
    [set_count |-> Len(input), items |-> collect(<<>>, input)]

from_iter(input) ==
    LET collected == collect(<<>>, input)
    IN  [set_count |-> Cardinality(DOMAIN collected), items |-> collected]

----------------------------------------------------------------------------
\* the record of calls

Call(op, item1, item2, ret) ==
    [op |-> op, item1 |-> item1, item2 |-> item2, ret |-> ret]

Before == [set_count |-> set_count, items |-> items]

\* the keys connected to k by the unite calls made so far
ClassOf(h, k) == {k} \cup {j \in Keys : <<k, j>> \in h}

\* history after one more pair (a, b) of added keys is passed to unite
Connect(h, a, b) ==
    h \cup {p \in (ClassOf(h, a) \cup ClassOf(h, b))
                  \X (ClassOf(h, a) \cup ClassOf(h, b)) : p[1] # p[2]}

----------------------------------------------------------------------------
\* the state machine

\* HashUnionFindSets::new()
New ==
    /\ set_count = 0
    /\ items = <<>>
    /\ last = Call("new", 0, 0, TRUE)

\* input.into_iter().collect()
FromIter(input) ==
    /\ set_count = from_iter(input).set_count
    /\ items = from_iter(input).items
    /\ last = [op |-> "from_iter", item1 |-> 0, item2 |-> 0, ret |-> TRUE,
               input |-> input]

Init ==
    /\ New \/ \E input \in SeqsUpTo(Keys, MaxIter) : FromIter(input)
    /\ prev = [set_count |-> 0, items |-> <<>>]
    /\ history = {}
    /\ ok_unites = 0
    /\ NoSets
    /\ NoIterator
    /\ NoModP
    /\ NoRange

Add(item) ==
    LET r == add(set_count, items, item)
    IN  /\ set_count' = r.set_count
        /\ items' = r.items
        /\ last' = Call("add", item, item, r.ret)
        /\ prev' = Before
        /\ UNCHANGED <<history, ok_unites>>
        /\ UNCHANGED <<sets_vars, z_vars, num_vars>>

LenOf(item) ==
    LET r == len_of(set_count, items, item)
    IN  /\ set_count' = r.set_count
        /\ items' = r.items
        /\ last' = Call("len_of", item, item, r.ret)
        /\ prev' = Before
        /\ UNCHANGED <<history, ok_unites>>
        /\ UNCHANGED <<sets_vars, z_vars, num_vars>>

SetEq(item1, item2) ==
    LET r == set_eq(set_count, items, item1, item2)
    IN  /\ set_count' = r.set_count
        /\ items' = r.items
        /\ last' = Call("set_eq", item1, item2, r.ret)
        /\ prev' = Before
        /\ UNCHANGED <<history, ok_unites>>
        /\ UNCHANGED <<sets_vars, z_vars, num_vars>>

Unite(item1, item2) ==
    LET r == unite(set_count, items, item1, item2)
    IN  /\ set_count' = r.set_count
        /\ items' = r.items
        /\ last' = Call("unite", item1, item2, r.ret)
        /\ prev' = Before
        /\ history' = IF item1 \in DOMAIN items /\ item2 \in DOMAIN items
                      THEN Connect(history, item1, item2)
                      ELSE history
        /\ ok_unites' = IF r.ret = Ok(TRUE) THEN ok_unites + 1 ELSE ok_unites
        /\ UNCHANGED <<sets_vars, z_vars, num_vars>>

Next ==
    \/ \E item \in Keys : Add(item)
    \/ \E item \in Keys : LenOf(item)
    \/ \E item1, item2 \in Keys : SetEq(item1, item2)
    \/ \E item1, item2 \in Keys : Unite(item1, item2)

Spec == Init /\ [][Next]_vars

----------------------------------------------------------------------------
\* The forest of src/src/collections/sets.rs, whose nodes carry a clone of
\* their key and are compared by it. A cell is named by the key whose
\* UnionFindNode::new allocated it and by its rank among the live cells
\* allocated for that key.

\* UnionFindNode<T>(Rc<RefCell<UnionFindNodeInner<T>>>, T)
Node(cell, item) == [cell |-> cell, item |-> item]

Cell(key, gen) == [key |-> key, gen |-> gen]

\* the cell an allocation for `item` returns
fresh_cell(heap, item) ==
    Cell(item, CHOOSE g \in 0..Cardinality(DOMAIN heap) :
                   /\ Cell(item, g) \notin DOMAIN heap
                   /\ \A h \in 0..(g - 1) : Cell(item, h) \in DOMAIN heap)

\* UnionFindNode::new(item): a fresh cell holding Root { len: 1 }, and the
\* node that owns it
sets_node_new(heap, item) ==
    LET cell == fresh_cell(heap, item)
    IN  [heap |-> [c \in DOMAIN heap \cup {cell} |->
                      IF c = cell THEN Root(1) ELSE heap[c]],
         node |-> Node(cell, item)]

\* eq comparing the cells' contents, as `self.0 == other.0` does
node_eq_by_content(heap, node1, node2) == heap[node1.cell] = heap[node2.cell]

\* PartialEq::eq: `self.1 == other.1`
node_eq(heap, node1, node2) == node1.item = node2.item

RECURSIVE sets_go(_, _)
sets_go(heap, node) ==
    IF heap[node.cell].tag = "Root"
    THEN [heap |-> heap, root |-> node, len |-> heap[node.cell].len]
    ELSE LET r == sets_go(heap, heap[node.cell].parent)
         IN  [heap |-> [r.heap EXCEPT ![node.cell] = Child(r.root)],
              root |-> r.root, len |-> r.len]

\* self.items.get(item).cloned().map(go)
sets_find(its, heap, item) ==
    IF item \in DOMAIN its
    THEN LET r == sets_go(heap, its[item])
         IN  [some |-> TRUE, heap |-> r.heap, root |-> r.root, len |-> r.len]
    ELSE [some |-> FALSE, heap |-> heap]

sets_find_both(its, heap, item1, item2) ==
    LET f1 == sets_find(its, heap, item1)
        f2 == sets_find(its, f1.heap, item2)
    IN  [first |-> f1, second |-> f2, heap |-> f2.heap]

sets_count_of(sc, its) == sc

sets_items_len(sc, its) == Cardinality(DOMAIN its)

sets_add(sc, its, heap, item) ==
    IF item \in DOMAIN its
    THEN [set_count |-> sc, items |-> its, heap |-> heap, ret |-> FALSE]
    ELSE LET new == sets_node_new(heap, item)
         IN  [set_count |-> sc + 1,
              items |-> [k \in DOMAIN its \cup {item} |->
                            IF k = item THEN new.node ELSE its[k]],
              heap |-> new.heap,
              ret |-> TRUE]

sets_len_of(sc, its, heap, item) ==
    LET f == sets_find(its, heap, item)
    IN  [set_count |-> sc, items |-> its, heap |-> f.heap,
         ret |-> IF f.some THEN Ok(f.len) ELSE Err(error_msg(<<item>>))]

sets_set_eq(sc, its, heap, item1, item2) ==
    LET fs == sets_find_both(its, heap, item1, item2)
    IN  [set_count |-> sc, items |-> its, heap |-> fs.heap,
         ret |-> IF fs.first.some /\ fs.second.some
                 THEN Ok(node_eq(fs.heap, fs.first.root, fs.second.root))
                 ELSE not_found(fs.first, fs.second, item1, item2)]

\* the two writes of the merge in unite
sets_merge(heap, root1, len1, root2, len2) ==
    LET root_node == IF len1 < len2 THEN root2 ELSE root1
        child     == IF len1 < len2 THEN root1 ELSE root2
    IN  [heap EXCEPT ![root_node.cell] = Root(len1 + len2),
                     ![child.cell] = Child(root_node)]

sets_unite(sc, its, heap, item1, item2) ==
    LET fs == sets_find_both(its, heap, item1, item2)
        f1 == fs.first
        f2 == fs.second
    IN  IF f1.some /\ f2.some
        THEN IF node_eq(fs.heap, f1.root, f2.root)
             THEN [set_count |-> sc, items |-> its, heap |-> fs.heap,
                   ret |-> Ok(FALSE)]
             ELSE [set_count |-> sc - 1, items |-> its,
                   heap |-> sets_merge(fs.heap, f1.root, f1.len,
                                       f2.root, f2.len),
                   ret |-> Ok(TRUE)]
        ELSE [set_count |-> sc, items |-> its, heap |-> fs.heap,
              ret |-> not_found(f1, f2, item1, item2)]

\* .map(|x| (x.clone(), UnionFindNode::new(x))).collect(): each node is
\* made as the iterator reaches its key, and one that replaces an earlier
\* node of the same key drops that node's cell and takes its rank
RECURSIVE sets_collect(_, _, _)
sets_collect(its, heap, input) ==
    IF input = <<>> THEN [items |-> its, heap |-> heap]
    ELSE LET x == Head(input)
             new == sets_node_new(heap, x)
         IN  IF x \in DOMAIN its
             THEN LET dropped == its[x].cell
                  IN  sets_collect(
                          [its EXCEPT ![x] = Node(dropped, new.node.item)],
                          [c \in DOMAIN heap |->
                              IF c = dropped THEN new.heap[new.node.cell]
                              ELSE heap[c]],
                          Tail(input))
             ELSE sets_collect([k \in DOMAIN its \cup {x} |->
                                   IF k = x THEN new.node ELSE its[k]],
                               new.heap,
                               Tail(input))

sets_from_iter(input) ==
    LET collected == sets_collect(<<>>, <<>>, input)
    IN  [set_count |-> Cardinality(DOMAIN collected.items),
         items |-> collected.items, heap |-> collected.heap]

\* HashUnionFindSets::new() of both files
BothNew ==
    /\ New
    /\ sets_count = 0
    /\ sets_items = <<>>
    /\ sets_heap = <<>>
    /\ sets_last = TRUE

\* input.into_iter().collect() of both files
BothFromIter(input) ==
    /\ FromIter(input)
    /\ sets_count = sets_from_iter(input).set_count
    /\ sets_items = sets_from_iter(input).items
    /\ sets_heap = sets_from_iter(input).heap
    /\ sets_last = TRUE

BothInit ==
    /\ BothNew \/ \E input \in SeqsUpTo(Keys, MaxIter) : BothFromIter(input)
    /\ prev = [set_count |-> 0, items |-> <<>>]
    /\ history = {}
    /\ ok_unites = 0
    /\ NoIterator
    /\ NoModP
    /\ NoRange

\* one call made on both forests: r is what hash_union_find_sets.rs makes
\* of it, s what sets.rs makes of it
Both(op, item1, item2, r, s) ==
    /\ set_count' = r.set_count
    /\ items' = r.items
    /\ last' = Call(op, item1, item2, r.ret)
    /\ prev' = Before
    /\ sets_count' = s.set_count
    /\ sets_items' = s.items
    /\ sets_heap' = s.heap
    /\ sets_last' = s.ret
    /\ UNCHANGED <<history, ok_unites>>
    /\ UNCHANGED <<z_vars, num_vars>>

BothAdd(item) ==
    Both("add", item, item, add(set_count, items, item),
         sets_add(sets_count, sets_items, sets_heap, item))

BothLenOf(item) ==
    Both("len_of", item, item, len_of(set_count, items, item),
         sets_len_of(sets_count, sets_items, sets_heap, item))

BothSetEq(item1, item2) ==
    Both("set_eq", item1, item2, set_eq(set_count, items, item1, item2),
         sets_set_eq(sets_count, sets_items, sets_heap, item1, item2))

BothUnite(item1, item2) ==
    Both("unite", item1, item2, unite(set_count, items, item1, item2),
         sets_unite(sets_count, sets_items, sets_heap, item1, item2))

BothNext ==
    \/ \E item \in Keys : BothAdd(item)
    \/ \E item \in Keys : BothLenOf(item)
    \/ \E item1, item2 \in Keys : BothSetEq(item1, item2)
    \/ \E item1, item2 \in Keys : BothUnite(item1, item2)

SpecBoth == BothInit /\ [][BothNext]_vars

----------------------------------------------------------------------------
\* what the claims speak of

\* the root a key resolves to, and the nodes on its parent chain
RootOf(heap, k) == go(heap, k).root

RECURSIVE PathOf(_, _)
PathOf(heap, node) ==
    IF heap[node].tag = "Root" THEN {node}
    ELSE {node} \cup PathOf(heap, heap[node].parent)

Depth(heap, k) == Cardinality(PathOf(heap, k)) - 1

SetOf(heap, k) == {j \in DOMAIN heap : RootOf(heap, j) = RootOf(heap, k)}

Roots(heap) == {k \in DOMAIN heap : heap[k].tag = "Root"}

----------------------------------------------------------------------------
\* C1. Partition invariant: for every pair of added keys (a, b), set_eq(a, b)
\* returns Ok(true) if a and b are connected by the pairs passed to unite so
\* far (reflexively, symmetrically, transitively), and Ok(false) otherwise.
PartitionInvariant ==
    \A a, b \in DOMAIN items :
        set_eq(set_count, items, a, b).ret = Ok(a = b \/ <<a, b>> \in history)

\* a set of three keys, a connected pair in it and an unconnected pair
PartitionWitness ==
    \E a, b, c \in DOMAIN items :
        /\ Cardinality(ClassOf(history, a)) = 3
        /\ a # b /\ <<a, b>> \in history
        /\ a # c /\ <<a, c>> \notin history
        /\ set_eq(set_count, items, a, b).ret = Ok(TRUE)
        /\ set_eq(set_count, items, a, c).ret = Ok(FALSE)

\* C2. Count invariant: count() is the number of Root nodes, and is
\* items_len() minus the number of unite calls that returned Ok(true).
CountInvariant ==
    /\ count(set_count, items) = Cardinality(Roots(items))
    /\ count(set_count, items) = items_len(set_count, items) - ok_unites

CountWitness ==
    /\ ok_unites = 2
    /\ count(set_count, items) = 2
    /\ last.op = "add"

\* C3. Size invariant: for every added key k, len_of(k) returns Ok(n), n the
\* number of added keys whose root is the node that is k's root.
SizeInvariant ==
    \A k \in DOMAIN items :
        len_of(set_count, items, k).ret = Ok(Cardinality(SetOf(items, k)))

SizeWitness ==
    \E k \in DOMAIN items :
        /\ items[k].tag = "Child"
        /\ len_of(set_count, items, k).ret = Ok(3)
        /\ Cardinality(DOMAIN items) = 4

\* C4. add(key): when key was already added it returns false and changes
\* nothing; otherwise it returns true, inserts key as a Root of len 1, raises
\* count() and items_len() by exactly 1 and leaves every other node as it was.
AddContract ==
    last.op = "add" =>
        LET k == last.item1
        IN  IF k \in DOMAIN prev.items
            THEN /\ last.ret = FALSE
                 /\ items = prev.items
                 /\ set_count = prev.set_count
            ELSE /\ last.ret = TRUE
                 /\ DOMAIN items = DOMAIN prev.items \cup {k}
                 /\ items[k] = Root(1)
                 /\ count(set_count, items)
                        = count(prev.set_count, prev.items) + 1
                 /\ items_len(set_count, items)
                        = items_len(prev.set_count, prev.items) + 1
                 /\ \A j \in DOMAIN prev.items :
                        /\ items[j] = prev.items[j]
                        /\ SetOf(items, j) = SetOf(prev.items, j)

\* add of a key that is already a Child in a set of several keys
AddWitness ==
    /\ last.op = "add"
    /\ last.ret = FALSE
    /\ items[last.item1].tag = "Child"

\* the two roots and lens a unite call found, read from the state before it
Found ==
    LET fs == find_both(prev.items, last.item1, last.item2)
    IN  [root1 |-> fs.first.root, len1 |-> prev.items[fs.first.root].len,
         root2 |-> fs.second.root, len2 |-> prev.items[fs.second.root].len]

Merging ==
    /\ last.op = "unite"
    /\ last.item1 \in DOMAIN prev.items
    /\ last.item2 \in DOMAIN prev.items
    /\ RootOf(prev.items, last.item1) # RootOf(prev.items, last.item2)

\* C5. unite idempotence: unite(a, b) on added keys in different sets
\* returns Ok(true) and leaves a state in which unite(a, b) returns
\* Ok(false); and if unite(a, b) would have returned Ok(false) before the
\* last call, whatever that call was, it returns Ok(false) after it.
UniteIdempotent ==
    /\ Merging =>
          /\ last.ret = Ok(TRUE)
          /\ unite(set_count, items, last.item1, last.item2).ret = Ok(FALSE)
    /\ \A a, b \in Keys :
          unite(prev.set_count, prev.items, a, b).ret = Ok(FALSE)
             => unite(set_count, items, a, b).ret = Ok(FALSE)

\* a unite that merged two sets of two keys; repeating it would return
\* Ok(false)
UniteIdempotentWitness ==
    /\ last.op = "unite"
    /\ last.ret = Ok(TRUE)
    /\ Cardinality(SetOf(items, last.item1)) = 4
    /\ unite(set_count, items, last.item1, last.item2).ret = Ok(FALSE)

\* C6. Error naming: set_eq and unite return Err whenever a key was never
\* added; with exactly one key missing the message names that key alone,
\* with both missing it names item1 and item2.
ErrorNaming ==
    last.op \in {"set_eq", "unite"} =>
        LET a == last.item1
            b == last.item2
            added == DOMAIN prev.items
        IN  /\ (a \in added /\ b \in added) => last.ret.tag = "Ok"
            /\ (a \notin added /\ b \in added) =>
                   last.ret = Err(error_msg(<<a>>))
            /\ (a \in added /\ b \notin added) =>
                   last.ret = Err(error_msg(<<b>>))
            /\ (a \notin added /\ b \notin added) =>
                   last.ret = Err(error_msg(<<a, b>>))

\* the missing key is the first argument, the second is present
ErrorNamingWitness ==
    /\ last.op = "unite"
    /\ last.item1 \notin DOMAIN items
    /\ last.item2 \in DOMAIN items
    /\ last.ret.tag = "Err"
    /\ last.ret.msg.args = <<last.item1>>

\* C7. Union by size: when unite merges two sets whose root sizes differ,
\* the root of strictly smaller size becomes a Child of the other root, the
\* surviving root's size is the sum, the set count drops by exactly 1 and
\* the call returns Ok(true).
UnionBySize ==
    (Merging /\ Found.len1 # Found.len2) =>
        LET small == IF Found.len1 < Found.len2 THEN Found.root1 ELSE Found.root2
            large == IF Found.len1 < Found.len2 THEN Found.root2 ELSE Found.root1
        IN  /\ items[small] = Child(large)
            /\ items[large] = Root(Found.len1 + Found.len2)
            /\ set_count = prev.set_count - 1
            /\ last.ret = Ok(TRUE)

\* item1's set is the larger one
UnionBySizeWitness ==
    /\ Merging
    /\ Found.len1 = 3
    /\ Found.len2 = 1

\* C8 as claimed. Tie-break: when unite(key1, key2) merges two sets of equal
\* size, key1's root becomes the Child and key2's root stays the Root.
TieFirstBecomesChild ==
    (Merging /\ Found.len1 = Found.len2) =>
        /\ items[Found.root1] = Child(Found.root2)
        /\ items[Found.root2].tag = "Root"

\* C8 as amended. Tie-break: when unite(key1, key2) merges two sets of
\* equal size, key2's root becomes the Child and key1's root stays the Root.
TieSecondBecomesChild ==
    (Merging /\ Found.len1 = Found.len2) =>
        /\ items[Found.root2] = Child(Found.root1)
        /\ items[Found.root1] = Root(Found.len1 + Found.len2)

TieWitness ==
    /\ Merging
    /\ Found.len1 = 2
    /\ Found.len2 = 2

SameSetUnite ==
    /\ last.op = "unite"
    /\ last.item1 \in DOMAIN prev.items
    /\ last.item2 \in DOMAIN prev.items
    /\ RootOf(prev.items, last.item1) = RootOf(prev.items, last.item2)

\* C9 as claimed. unite on keys already in the same set returns Ok(false)
\* and the set count, every Root's size and every Child's parent link are
\* as they were before the call.
SameSetUniteChangesNothing ==
    SameSetUnite =>
        /\ last.ret = Ok(FALSE)
        /\ set_count = prev.set_count
        /\ items = prev.items

\* C9 as amended. unite on keys already in the same set returns Ok(false);
\* the set count, every Root node and the root of every key are as they
\* were before the call, and a Child's parent link changes only for the
\* Child nodes on the parent chains of the two keys, which then point
\* directly at their root.
SameSetUniteOnlyCompresses ==
    SameSetUnite =>
        /\ last.ret = Ok(FALSE)
        /\ set_count = prev.set_count
        /\ DOMAIN items = DOMAIN prev.items
        /\ \A k \in DOMAIN prev.items :
              /\ RootOf(items, k) = RootOf(prev.items, k)
              /\ items[k] =
                    IF prev.items[k].tag = "Child"
                       /\ k \in PathOf(prev.items, last.item1)
                                \cup PathOf(prev.items, last.item2)
                    THEN Child(RootOf(prev.items, k))
                    ELSE prev.items[k]

\* the call rewrote a parent link
SameSetUniteWitness ==
    /\ SameSetUnite
    /\ last.item1 # last.item2
    /\ items # prev.items

\* the answers of every call that reads the forest
Observed(sc, heap) ==
    [count |-> count(sc, heap),
     items_len |-> items_len(sc, heap),
     len_of |-> [k \in Keys |-> len_of(sc, heap, k).ret],
     set_eq |-> [p \in Keys \X Keys |-> set_eq(sc, heap, p[1], p[2]).ret]]

\* C10. Queries preserve observable state: after len_of or set_eq, every
\* set_eq, len_of, count and items_len call answers as it would have before
\* the query, the set count is unchanged and every key has the root it had.
QueriesPreserveObserved ==
    last.op \in {"len_of", "set_eq"} =>
        /\ Observed(set_count, items) = Observed(prev.set_count, prev.items)
        /\ set_count = prev.set_count
        /\ DOMAIN items = DOMAIN prev.items
        /\ \A k \in DOMAIN items : RootOf(items, k) = RootOf(prev.items, k)

\* a query that rewrote a parent link
QueryWitness ==
    /\ last.op \in {"len_of", "set_eq"}
    /\ items # prev.items

\* the node reached from `node` by at most n parent links, stopping at a
\* Root or at a parent that is no cell of the forest
RECURSIVE Walk(_, _, _)
Walk(heap, node, n) ==
    IF n = 0 \/ node \notin DOMAIN heap THEN node
    ELSE IF heap[node].tag = "Root" THEN node
    ELSE Walk(heap, heap[node].parent, n - 1)

\* C11. Forest acyclicity: from every key's node the parent links reach a
\* Root within as many steps as there are nodes (no cycle, no dangling
\* parent), and that Root is the one find returns.
ForestAcyclic ==
    \A k \in DOMAIN items :
        LET top == Walk(items, k, Cardinality(DOMAIN items))
        IN  /\ top \in DOMAIN items
            /\ items[top].tag = "Root"
            /\ find(items, k).root = top

\* a merge has just put a chain of two parent links in the forest
ForestAcyclicWitness ==
    /\ last.op = "unite"
    /\ last.ret = Ok(TRUE)
    /\ \E k \in DOMAIN items :
          /\ items[k].tag = "Child"
          /\ items[items[k].parent].tag = "Child"

\* the keys an iterator yields
Range(input) == {input[i] : i \in 1..Len(input)}

\* C12. Construction from an iterable: the forest collected from a finite
\* sequence of keys has items_len() equal to the number of distinct keys,
\* count() equal to items_len(), and every key a singleton set of size 1.
FromIterContract ==
    last.op = "from_iter" =>
        /\ DOMAIN items = Range(last.input)
        /\ items_len(set_count, items) = Cardinality(Range(last.input))
        /\ count(set_count, items) = items_len(set_count, items)
        /\ \A k \in Range(last.input) :
              /\ items[k] = Root(1)
              /\ len_of(set_count, items, k).ret = Ok(1)
              /\ SetOf(items, k) = {k}

\* an input with a repeated key between two others
FromIterWitness ==
    /\ last.op = "from_iter"
    /\ Len(last.input) = 3
    /\ last.input[1] = last.input[3]
    /\ last.input[1] # last.input[2]

\* the added keys a call looked up with find
Looked ==
    IF last.op \in {"len_of", "set_eq", "unite"}
    THEN {last.item1, last.item2} \cap DOMAIN prev.items
    ELSE {}

\* C25. Full path compression: after a find for an added key k (inside
\* len_of, set_eq or unite), every node that was a Child on the parent chain
\* from k points directly at the root find returned, and find rewrites the
\* content of no Root (after a merging unite only the two roots it merged
\* differ from what they were).
FullPathCompression ==
    /\ \A k \in Looked :
          \A n \in PathOf(prev.items, k) :
              prev.items[n].tag = "Child" =>
                  items[n] = Child(RootOf(prev.items, k))
    /\ last.op \in {"len_of", "set_eq", "unite"} =>
          \A n \in Roots(prev.items) :
              \/ items[n] = prev.items[n]
              \/ Merging /\ n \in {Found.root1, Found.root2}

\* a find for a key two parent links below its root
FullPathCompressionWitness ==
    /\ last.op = "len_of"
    /\ last.item1 \in DOMAIN prev.items
    /\ Depth(prev.items, last.item1) = 2
    /\ Depth(items, last.item1) = 1

\* C27. Failed operations change nothing observable: when len_of, set_eq
\* or unite returns Err, items_len, count, the set every key is in and the
\* size of every set are as they were before the call.
FailedCallsPreserveObserved ==
    (last.op \in {"len_of", "set_eq", "unite"} /\ last.ret.tag = "Err") =>
        /\ Observed(set_count, items) = Observed(prev.set_count, prev.items)
        /\ set_count = prev.set_count
        /\ DOMAIN items = DOMAIN prev.items
        /\ \A k \in DOMAIN items :
              /\ RootOf(items, k) = RootOf(prev.items, k)
              /\ SetOf(items, k) = SetOf(prev.items, k)
              /\ items[RootOf(items, k)] = prev.items[RootOf(items, k)]

\* a failing unite whose one successful find went through a Child, with
\* more than one set in the forest
FailedCallWitness ==
    /\ last.op = "unite"
    /\ last.ret.tag = "Err"
    /\ set_count > 1
    /\ last.item1 \in DOMAIN prev.items
    /\ prev.items[last.item1].tag = "Child"

\* 2 to the power n
RECURSIVE Pow2(_)
Pow2(n) == IF n = 0 THEN 1 ELSE 2 * Pow2(n - 1)

\* C28. Height bound: the depth of every key is at most floor(log2 s) for
\* s the size of its set, that is, a tree whose deepest node is at depth h
\* holds at least 2^h keys.
HeightBound ==
    \A k \in DOMAIN items :
        Pow2(Depth(items, k)) <= Cardinality(SetOf(items, k))

\* a key at depth 2 in a set of exactly four keys
HeightBoundWitness ==
    \E k \in DOMAIN items :
        /\ Depth(items, k) = 2
        /\ Cardinality(SetOf(items, k)) = 4

----------------------------------------------------------------------------
\* The Z algorithm (src/src/z.rs)

\* the longest text handed to longest_prefix_lengths
MaxTextLen == 6

\* the longest text and pattern handed to z_match_indices
MaxMatchTextLen == 5

MaxPatternLen == 3

\* how many times next() is called again once it has returned None
MaxNone == 2

Alphabet == {"a", "b"}

\* "aabcabaabcac", the text of test_longest_prefix_lengths
TestText == <<"a", "a", "b", "c", "a", "b", "a", "a", "b", "c", "a", "c">>

\* "xababxabababxabxabab" and "abab", the example of z_match_indices
DocText ==
    <<"x", "a", "b", "a", "b", "x", "a", "b", "a", "b", "a", "b", "x",
      "a", "b", "x", "a", "b", "a", "b">>

DocPattern == <<"a", "b", "a", "b">>

Texts == SeqsUpTo(Alphabet, MaxTextLen) \cup {TestText}

MatchInputs ==
    {[text |-> t, pattern |-> p] :
        t \in SeqsUpTo(Alphabet, MaxMatchTextLen),
        p \in SeqsUpTo(Alphabet, MaxPatternLen)}
    \cup {[text |-> DocText, pattern |-> DocPattern]}

\* Option<T>
Some(v) == [tag |-> "Some", val |-> v]

None == [tag |-> "None"]

Range0(from, to) == [start |-> from, end |-> to]

Last(s) == s[Len(s)]

\* exact_match_len: the pairs of the zip are compared in order until one
\* differs or the shorter slice ends
RECURSIVE exact_match_len(_, _)
exact_match_len(s1, s2) ==
    IF s1 = <<>> \/ s2 = <<>> THEN 0
    ELSE IF Head(s1) = Head(s2)
         THEN 1 + exact_match_len(Tail(s1), Tail(s2))
         ELSE 0

\* how many times exact_match_len evaluates c1 == c2: once for each pair
\* counted and once for the pair that stopped take_while, if one did
comparisons(s1, s2) ==
    LET l == exact_match_len(s1, s2)
    IN  IF l < Len(s1) /\ l < Len(s2) THEN l + 1 ELSE l

\* s.get_unchecked(from..), defined only while from <= s.len()
in_bounds(s, from) == from <= Len(s)

get_unchecked(s, from) == SubSeq(s, from + 1, Len(s))

\* the test with > in place of >=
exhausted_one_late(t, zt) == Len(zt) > Len(t)

\* `if index >= text.len()`
exhausted(t, zt) == Len(zt) >= Len(t)

\* the z_box never consulted: every position is matched from scratch
outside_z_box_always(zb, index) == TRUE

\* `if z_box.end <= index`
outside_z_box(zb, index) == zb.end <= index

\* the test with <= in place of <
inside_prefix_box_or_on_edge(prefix_right_len, z_box_right_len) ==
    prefix_right_len <= z_box_right_len

\* `if prefix_right_len < z_box_right_len`
inside_prefix_box(prefix_right_len, z_box_right_len) ==
    prefix_right_len < z_box_right_len

\* the pushed entry without the part inside the z_box
extended_len_without_box(z_box_right_len, additional_len) == additional_len

\* `z_table.push(z_box_right_len + additional_len)`
extended_len(z_box_right_len, additional_len) ==
    z_box_right_len + additional_len

\* the new z_box measured from index, not from the end of the old z_box
extended_box_restarted(index, end, additional_len) ==
    Range0(index, index + additional_len)

\* `*z_box = index .. z_box.end + additional_len`
extended_box(index, end, additional_len) ==
    Range0(index, end + additional_len)

\* update_state: ret is the returned bool, z_box and z_table the two
\* arguments as the call leaves them, cmp the element comparisons it made;
\* ub is TRUE when an unchecked access was out of bounds, and then nothing
\* else of the record means anything
update_state(t, zb, zt) ==
    LET index == Len(zt)
        same  == [ret |-> FALSE, z_box |-> zb, z_table |-> zt, cmp |-> 0,
                  ub |-> FALSE]
        undefined == [same EXCEPT !.ub = TRUE]
    IN  IF exhausted(t, zt) THEN same
        ELSE IF outside_z_box(zb, index)
        THEN IF ~in_bounds(t, index) THEN undefined
             ELSE LET len == exact_match_len(t, get_unchecked(t, index))
                  IN  [ret |-> TRUE,
                       z_box |-> Range0(index, index + len),
                       z_table |-> Append(zt, len),
                       cmp |-> comparisons(t, get_unchecked(t, index)),
                       ub |-> FALSE]
        ELSE LET z_box_right_len == zb.end - index
                 prefix_index == index - zb.start
             IN  IF prefix_index < 0 \/ prefix_index >= Len(zt) THEN undefined
                 ELSE LET prefix_right_len == zt[prefix_index + 1]
                      IN  IF inside_prefix_box(prefix_right_len, z_box_right_len)
                          THEN [ret |-> TRUE, z_box |-> zb,
                                z_table |-> Append(zt, prefix_right_len),
                                cmp |-> 0, ub |-> FALSE]
                          ELSE IF ~in_bounds(t, z_box_right_len)
                                  \/ ~in_bounds(t, zb.end)
                          THEN undefined
                          ELSE LET s1 == get_unchecked(t, z_box_right_len)
                                   s2 == get_unchecked(t, zb.end)
                                   additional_len == exact_match_len(s1, s2)
                               IN  [ret |-> TRUE,
                                    z_box |-> extended_box(index, zb.end,
                                                           additional_len),
                                    z_table |-> Append(zt,
                                        extended_len(z_box_right_len,
                                                     additional_len)),
                                    cmp |-> comparisons(s1, s2),
                                    ub |-> FALSE]

\* one update_state call, as z_steps records it
Step(t, zb, zt, u) ==
    [len |-> Len(t), z_box |-> zb, z_table |-> zt, ret |-> u.ret,
     z_box_after |-> u.z_box, z_table_after |-> u.z_table, cmp |-> u.cmp]

\* new without `z_table.push(0)`
lpl_new_empty_table(t) == [text |-> t, z_box |-> Range0(0, 0), z_table |-> <<>>]

\* LongestPrefixLengths::new
lpl_new(t) == [text |-> t, z_box |-> Range0(0, 0), z_table |-> <<0>>]

\* LongestPrefixLengths::next
lpl_next(t, zb, zt) ==
    LET u == update_state(t, zb, zt)
    IN  [ret |-> IF u.ret THEN Some(Last(u.z_table)) ELSE None,
         z_box |-> u.z_box, z_table |-> u.z_table,
         steps |-> <<Step(t, zb, zt, u)>>, cmp |-> u.cmp, ub |-> u.ub]

\* concat without `concat.push(sep)`
concat_of_without_sep(pattern, sep, t) == pattern \o t

\* concat = pattern; concat.push(sep); concat.extend(text)
concat_of(pattern, sep, t) == pattern \o <<sep>> \o t

\* `for _ in 0..len { update_state(&concat, &mut z_box, &mut z_table); }`
RECURSIVE warm_up(_, _, _, _)
warm_up(c, zb, zt, n) ==
    IF n = 0
    THEN [z_box |-> zb, z_table |-> zt, steps |-> <<>>, cmp |-> 0, ub |-> FALSE]
    ELSE LET u == update_state(c, zb, zt)
         IN  IF u.ub
             THEN [z_box |-> zb, z_table |-> zt, steps |-> <<>>, cmp |-> 0,
                   ub |-> TRUE]
             ELSE LET r == warm_up(c, u.z_box, u.z_table, n - 1)
                  IN  [r EXCEPT !.steps = <<Step(c, zb, zt, u)>> \o r.steps,
                                !.cmp = u.cmp + r.cmp]

\* ZMatchIndices::new
zmi_new(pattern, sep, t) ==
    LET len == Len(pattern)
        c == concat_of(pattern, sep, t)
        w == warm_up(c, Range0(0, 0), <<0>>, len)
    IN  [concat |-> c, pattern_len |-> len, z_box |-> w.z_box,
         z_table |-> w.z_table, steps |-> w.steps, cmp |-> w.cmp, ub |-> w.ub]

\* .iter().map(|x| Some(x.clone()))
wrap(s) == [i \in 1..Len(s) |-> Some(s[i])]

\* <[T] as ZString>::z_match_indices
z_match_indices(self, pattern) == zmi_new(wrap(pattern), None, wrap(self))

\* the index without the separator's place
match_index_without_sep(table_len, pl) == table_len - 1 - pl

\* `self.z_table.len() - 1 - (self.pattern_len + 1)`
match_index(table_len, pl) == table_len - 1 - (pl + 1)

\* ZMatchIndices::next: update_state is called until it returns false or
\* the entry it pushed equals pattern_len
RECURSIVE zmi_next(_, _, _, _)
zmi_next(c, pl, zb, zt) ==
    LET u == update_state(c, zb, zt)
        here == [ret |-> None, z_box |-> u.z_box, z_table |-> u.z_table,
                 steps |-> <<Step(c, zb, zt, u)>>, cmp |-> u.cmp, ub |-> u.ub]
    IN  IF u.ub \/ ~u.ret THEN here
        ELSE IF Last(u.z_table) = pl
        THEN [here EXCEPT !.ret = Some(match_index(Len(u.z_table), pl))]
        ELSE LET r == zmi_next(c, pl, u.z_box, u.z_table)
             IN  [r EXCEPT !.steps = here.steps \o r.steps,
                           !.cmp = u.cmp + r.cmp]

\* the forest is not in use
NoForest ==
    /\ New
    /\ prev = [set_count |-> 0, items |-> <<>>]
    /\ history = {}
    /\ ok_unites = 0
    /\ NoSets

\* the sequence update_state runs on
Sequence == IF iter = "ZMatchIndices" THEN concat ELSE text

NoneCount == Cardinality({i \in DOMAIN z_out : z_out[i] = None})

\* text.longest_prefix_lengths()
LplInit(t) ==
    /\ iter = "LongestPrefixLengths"
    /\ text = lpl_new(t).text
    /\ concat = <<>>
    /\ pattern_len = 0
    /\ z_box = lpl_new(t).z_box
    /\ z_table = lpl_new(t).z_table
    /\ z_in = [text |-> t, pattern |-> <<>>]
    /\ z_out = <<>>
    /\ z_steps = <<>>
    /\ z_cmp = 0

\* text.z_match_indices(pattern); a warm-up that ran into an out-of-bounds
\* unchecked access may leave any table behind
ZmiInit(t, p) ==
    LET new == z_match_indices(t, p)
    IN  /\ iter = "ZMatchIndices"
        /\ text = <<>>
        /\ concat = new.concat
        /\ pattern_len = new.pattern_len
        /\ z_box = new.z_box
        /\ IF new.ub
           THEN z_table \in SeqsUpTo(0..Len(new.concat), Len(new.z_table))
           ELSE z_table = new.z_table
        /\ z_in = [text |-> t, pattern |-> p]
        /\ z_out = <<>>
        /\ z_steps = new.steps
        /\ z_cmp = new.cmp

ZInit ==
    /\ NoForest
    /\ NoModP
    /\ NoRange
    /\ \/ \E t \in Texts : LplInit(t)
       \/ \E in \in MatchInputs : ZmiInit(in.text, in.pattern)

\* what next() leaves behind: r when every access was in bounds, anything
\* the build may produce otherwise
Leaves(r) ==
    IF r.ub
    THEN /\ z_out' \in {Append(z_out, o) :
                           o \in {None} \cup {Some(n) : n \in 0..Len(Sequence)}}
         /\ z_table' \in {z_table} \cup {Append(z_table, n) : n \in 0..Len(Sequence)}
         /\ z_box' \in {z_box, r.z_box}
         /\ z_steps' = r.steps
         /\ z_cmp' = z_cmp
    ELSE /\ z_out' = Append(z_out, r.ret)
         /\ z_table' = r.z_table
         /\ z_box' = r.z_box
         /\ z_steps' = r.steps
         /\ z_cmp' = z_cmp + r.cmp

\* next() is called while it has returned None fewer than MaxNone times
CallsLeft ==
    /\ NoneCount < MaxNone
    /\ Len(z_out) < Len(Sequence) + MaxNone

LplNext ==
    /\ iter = "LongestPrefixLengths"
    /\ CallsLeft
    /\ Leaves(lpl_next(text, z_box, z_table))
    /\ UNCHANGED <<iter, text, concat, pattern_len, z_in>>
    /\ UNCHANGED <<forest_vars, sets_vars, num_vars>>

ZmiNext ==
    /\ iter = "ZMatchIndices"
    /\ CallsLeft
    /\ Leaves(zmi_next(concat, pattern_len, z_box, z_table))
    /\ UNCHANGED <<iter, text, concat, pattern_len, z_in>>
    /\ UNCHANGED <<forest_vars, sets_vars, num_vars>>

ZNext == LplNext \/ ZmiNext

SpecZ == ZInit /\ [][ZNext]_vars

----------------------------------------------------------------------------
\* what the claims about the iterators speak of

\* the values next() has yielded so far, in order
Yielded ==
    LET somes == SelectSeq(z_out, LAMBDA o : o.tag = "Some")
    IN  [i \in 1..Len(somes) |-> somes[i].val]

\* next() has returned None
Done == NoneCount >= 1

\* the length of the longest common prefix of s and s[i..], by comparing
\* element with element
LcpAt(s, i) ==
    CHOOSE l \in 0..(Len(s) - i) :
        /\ \A j \in 1..l : s[j] = s[i + j]
        /\ l = Len(s) - i \/ s[l + 1] # s[i + l + 1]

\* text[i..i+m] == pattern
OccursAt(t, p, i) ==
    /\ i + Len(p) <= Len(t)
    /\ \A j \in 1..Len(p) : t[i + j] = p[j]

\* C13. Z-array correctness: the i-th value longest_prefix_lengths() yields
\* is the length of the longest common prefix of s and s[i..], for every
\* position 1 <= i < len(s) once the iterator is exhausted; the test text
\* "aabcabaabcac" gives [1,0,0,1,0,5,1,0,0,1,0].
ZArrayCorrect ==
    iter = "LongestPrefixLengths" =>
        /\ \A i \in 1..Len(Yielded) :
              i < Len(text) /\ Yielded[i] = LcpAt(text, i)
        /\ Done => \A i \in 1..(Len(text) - 1) : i <= Len(Yielded)
        /\ (Done /\ text = TestText) =>
              Yielded = <<1, 0, 0, 1, 0, 5, 1, 0, 0, 1, 0>>

\* the test text, read to its end
ZArrayCorrectWitness ==
    /\ iter = "LongestPrefixLengths"
    /\ text = TestText
    /\ Done

\* C14. Z-array length: longest_prefix_lengths() on a sequence of length n
\* yields exactly n-1 values when n >= 1 and none when n = 0, and the k-th
\* value is the entry of position k, never that of position 0.
ZArrayLength ==
    iter = "LongestPrefixLengths" =>
        /\ Len(text) = 0 => Len(Yielded) = 0
        /\ Len(text) >= 1 => Len(Yielded) <= Len(text) - 1
        /\ (Done /\ Len(text) >= 1) => Len(Yielded) = Len(text) - 1
        /\ Len(z_table) = Len(Yielded) + 1
        /\ \A k \in 1..Len(Yielded) : Yielded[k] = z_table[k + 1]

\* a sequence of one element, read to its end
ZArrayLengthWitness ==
    /\ iter = "LongestPrefixLengths"
    /\ Len(text) = 1
    /\ Done

\* the text, the pattern and the occurrences z_match_indices is to find
Occurrences(candidates) ==
    {i \in candidates : OccursAt(z_in.text, z_in.pattern, i)}

\* C15 as claimed. Pattern matching exactness: the indices yielded by
\* text.z_match_indices(pattern) are exactly the i with
\* i + len(pattern) <= len(text) and text[i..i+len(pattern)] == pattern.
MatchesAreAllOccurrences ==
    iter = "ZMatchIndices" =>
        /\ \A k \in 1..Len(Yielded) :
              OccursAt(z_in.text, z_in.pattern, Yielded[k])
        /\ Done => {Yielded[k] : k \in 1..Len(Yielded)}
                      = Occurrences(0..Len(z_in.text))

\* C15 as amended. Pattern matching exactness: the indices yielded by
\* text.z_match_indices(pattern) are exactly the i with i < len(text),
\* i + len(pattern) <= len(text) and text[i..i+len(pattern)] == pattern.
MatchesAreOccurrencesInText ==
    iter = "ZMatchIndices" =>
        /\ \A k \in 1..Len(Yielded) :
              /\ Yielded[k] \in 0..(Len(z_in.text) - 1)
              /\ OccursAt(z_in.text, z_in.pattern, Yielded[k])
        /\ Done => {Yielded[k] : k \in 1..Len(Yielded)}
                      = Occurrences(0..(Len(z_in.text) - 1))

\* a pattern of two elements found twice, and not found at index 0
MatchesWitness ==
    /\ iter = "ZMatchIndices"
    /\ Done
    /\ Len(z_in.pattern) = 2
    /\ Len(Yielded) = 2
    /\ Yielded[1] # 0

\* C16. Pattern matching order: the indices successive next() calls yield
\* are strictly increasing, and occurrences that overlap are each yielded;
\* the example yields 1, 6, 8, 16.
MatchesIncrease ==
    iter = "ZMatchIndices" =>
        /\ \A j, k \in 1..Len(Yielded) : j < k => Yielded[j] < Yielded[k]
        /\ Done =>
              \A i, j \in Occurrences(0..(Len(z_in.text) - 1)) :
                  (i < j /\ j < i + Len(z_in.pattern)) =>
                      \E k, l \in 1..Len(Yielded) :
                          k < l /\ Yielded[k] = i /\ Yielded[l] = j
        /\ (Done /\ z_in.text = DocText /\ z_in.pattern = DocPattern) =>
              Yielded = <<1, 6, 8, 16>>

\* the example, read to its end
MatchesIncreaseWitness ==
    /\ iter = "ZMatchIndices"
    /\ z_in.text = DocText
    /\ z_in.pattern = DocPattern
    /\ Done

\* C17. Empty pattern: on a text of length n, z_match_indices with an
\* empty pattern yields exactly 0, 1, ..., n-1, in that order.
EmptyPatternMatchesEverywhere ==
    (iter = "ZMatchIndices" /\ z_in.pattern = <<>>) =>
        /\ Yielded = [k \in 1..Len(Yielded) |-> k - 1]
        /\ Len(Yielded) <= Len(z_in.text)
        /\ Done => Len(Yielded) = Len(z_in.text)

EmptyPatternWitness ==
    /\ iter = "ZMatchIndices"
    /\ z_in.pattern = <<>>
    /\ Len(z_in.text) = 3
    /\ Done

\* C18. Empty text: z_match_indices on an empty text yields no index,
\* whatever the pattern.
EmptyTextMatchesNowhere ==
    (iter = "ZMatchIndices" /\ z_in.text = <<>>) =>
        \A k \in 1..Len(z_out) : z_out[k] = None

EmptyTextWitness ==
    /\ iter = "ZMatchIndices"
    /\ z_in.text = <<>>
    /\ Len(z_in.pattern) = 2
    /\ Done

\* C19. Iterator exhaustion: update_state returns false exactly when
\* len(z_table) >= len(sequence), and then leaves z_box and z_table as they
\* were; a call that returns true appends exactly one entry to z_table; so
\* next() yields fewer values than the sequence has positions, and once it
\* has returned None it returns None on every later call.
IteratorsExhaust ==
    /\ \A n \in 1..Len(z_steps) :
          LET step == z_steps[n]
          IN  /\ step.ret <=> Len(step.z_table) < step.len
              /\ ~step.ret =>
                    /\ step.z_box_after = step.z_box
                    /\ step.z_table_after = step.z_table
              /\ step.ret =>
                    /\ Len(step.z_table_after) = Len(step.z_table) + 1
                    /\ SubSeq(step.z_table_after, 1, Len(step.z_table))
                          = step.z_table
    /\ iter # "none" =>
          /\ Len(Yielded) <= Len(Sequence)
          /\ Len(z_table) <= IF Len(Sequence) = 0 THEN 1 ELSE Len(Sequence)
          /\ \A j, k \in 1..Len(z_out) :
                (j < k /\ z_out[j] = None) => z_out[k] = None
          /\ Done => update_state(Sequence, z_box, z_table).ret = FALSE

\* a matching iterator that yielded, then returned None twice
IteratorsExhaustWitness ==
    /\ iter = "ZMatchIndices"
    /\ Len(Yielded) >= 2
    /\ NoneCount = 2
    /\ Len(z_steps) = 1

\* C20. Linear work: the calls of next() that exhaust
\* longest_prefix_lengths() on a sequence of length n make at most 2*n
\* element comparisons in all.
LinearWork ==
    iter = "LongestPrefixLengths" => z_cmp <= 2 * Len(text)

\* a text on which some element is compared more than once
LinearWorkWitness ==
    /\ iter = "LongestPrefixLengths"
    /\ Done
    /\ z_cmp > Len(text)

----------------------------------------------------------------------------
\* ModP (src/src/modulo/modp.rs): arithmetic modulo the prime in MODULUS

\* The widths of ModPModulus and ModPBase.  The program's are 32 and 64
\* bits; the model keeps the base twice as wide as the modulus and both
\* small enough to go through every modulus.
ModPModulusBits == 6

ModPBaseBits == 2 * ModPModulusBits

ModPModulusMax == 2^ModPModulusBits - 1

ModPBaseMax == 2^ModPBaseBits - 1

\* what a word of the given width holds after an operation whose exact
\* result is n, and whether the operation overflowed it
wrapping(bits, n) == n % 2^bits

overflows(bits, n) == n < 0 \/ n >= 2^bits

\* what a call leaves: the number it made, whether some step overflowed its
\* word (a panic in a build with overflow checks, wrapped otherwise) and
\* whether it panicked in every build
Made(base, overflow) == [base |-> base, overflow |-> overflow, panic |-> FALSE]

Panicked == [base |-> 0, overflow |-> FALSE, panic |-> TRUE]

\* second, computed from what first made
After(first, second) ==
    [second EXCEPT !.overflow = first.overflow \/ second.overflow,
                   !.panic = first.panic \/ second.panic]

Panic == [tag |-> "Panic"]

not_a_prime(modulus) ==
    Err([text |-> "{} is not a prime number.", args |-> <<modulus>>])

\* the loop of set_mod, entered at `if divisor * divisor > modulus` with
\* `divisor += step` the next increment: "break" or "return", and whether a
\* product or an increment overflowed on the way
RECURSIVE trial_division(_, _, _)
trial_division(modulus, divisor, step) ==
    LET square == divisor * divisor
        next   == divisor + step
    IN  IF wrapping(ModPModulusBits, square) > modulus
        THEN [ret |-> "break", overflow |-> overflows(ModPModulusBits, square)]
        ELSE IF modulus % divisor = 0
        THEN [ret |-> "return", overflow |-> overflows(ModPModulusBits, square)]
        ELSE LET r == trial_division(modulus,
                                     wrapping(ModPModulusBits, next), 6 - step)
             IN  [r EXCEPT !.overflow = \/ r.overflow
                                        \/ overflows(ModPModulusBits, square)
                                        \/ overflows(ModPModulusBits, next)]

\* ModP::set_mod: the returned value and MODULUS as the call leaves it
set_mod(checks, m, modulus) ==
    IF modulus <= 1
    THEN [MODULUS |-> m, ret |-> not_a_prime(modulus)]
    ELSE IF modulus >= 4
    THEN IF modulus % 2 = 0 \/ modulus % 3 = 0
         THEN [MODULUS |-> m, ret |-> not_a_prime(modulus)]
         ELSE LET t == trial_division(modulus, 5, 2)
              IN  IF checks /\ t.overflow
                  THEN [MODULUS |-> m, ret |-> Panic]
                  ELSE IF t.ret = "return"
                  THEN [MODULUS |-> m, ret |-> not_a_prime(modulus)]
                  ELSE [MODULUS |-> modulus, ret |-> Ok("()")]
    ELSE [MODULUS |-> modulus, ret |-> Ok("()")]

\* ModP::new: `n % MODULUS` divides by zero while no modulus is set
modp_new(m, n) == IF m = 0 THEN Panicked ELSE Made(n % m, FALSE)

\* ModP::new_unchecked; assert_mod_already_set is empty unless cfg(local)
new_unchecked(m, n) == Made(n, FALSE)

\* i64::rem_euclid, u64::rem_euclid: the remainder in 0..rhs-1
rem_euclid(lhs, rhs) == lhs % rhs

\* From<i64> and From<u64> for ModP
from(m, num) ==
    IF m = 0 THEN Panicked ELSE new_unchecked(m, rem_euclid(num, m))

\* Add for ModP: (self.base() + rhs.base() % m) % m
modp_add(m, self, rhs) ==
    IF m = 0 THEN Panicked
    ELSE LET sum == self + (rhs % m)
         IN  Made(wrapping(ModPBaseBits, sum) % m, overflows(ModPBaseBits, sum))

\* neg without ModP::new: MODULUS - self.base() as it is
neg_unreduced(m, self) ==
    Made(wrapping(ModPBaseBits, m - self), overflows(ModPBaseBits, m - self))

\* Neg for ModP: ModP::new(MODULUS - self.base())
neg(m, self) ==
    LET difference == m - self
    IN  After(Made(0, overflows(ModPBaseBits, difference)),
              modp_new(m, wrapping(ModPBaseBits, difference)))

\* Sub for ModP: self + (-rhs)
modp_sub(m, self, rhs) ==
    LET negated == neg(m, rhs)
    IN  After(negated, modp_add(m, self, negated.base))

\* Mul for ModP: self.base() * (rhs.base() % m) % m
modp_mul(m, self, rhs) ==
    IF m = 0 THEN Panicked
    ELSE LET product == self * (rhs % m)
         IN  Made(wrapping(ModPBaseBits, product) % m,
                  overflows(ModPBaseBits, product))

\* ModP::pow: exponentiation by squaring
RECURSIVE pow(_, _, _)
pow(m, self, exp) ==
    IF exp = 0 THEN modp_new(m, 1)
    ELSE LET sub == pow(m, self, exp \div 2)
         IN  IF sub.panic THEN sub
             ELSE IF exp % 2 = 0
             THEN After(sub, modp_mul(m, sub.base, sub.base))
             ELSE LET first == After(sub, modp_mul(m, self, sub.base))
                  IN  After(first, modp_mul(m, first.base, sub.base))

\* ModP::inv: assert!(self.base() != 0); self.pow(MODULUS - 2)
inv(m, self) ==
    IF self = 0 THEN Panicked
    ELSE After(Made(0, overflows(ModPBaseBits, m - 2)),
               pow(m, self, wrapping(ModPBaseBits, m - 2)))

\* Div for ModP: self * rhs.inv()
modp_div(m, self, rhs) ==
    LET inverse == inv(m, rhs)
    IN  After(inverse, modp_mul(m, self, inverse.base))

\* Add<ModPBase> for ModP: self + ModP::new(rhs)
modp_add_base(m, self, rhs) ==
    LET n == modp_new(m, rhs)
    IN  After(n, modp_add(m, self, n.base))

\* Add<ModP> for ModPBase with self taken as it is, not through ModP::new
base_add_modp_unreduced(m, self, rhs) == modp_add_base(m, self, rhs)

\* Add<ModP> for ModPBase: ModP::new(self) + rhs.base()
base_add_modp(m, self, rhs) ==
    LET n == modp_new(m, self)
    IN  After(n, modp_add_base(m, n.base, rhs))

\* Sub<ModPBase> for ModP: self - ModP::new(rhs)
modp_sub_base(m, self, rhs) ==
    LET n == modp_new(m, rhs)
    IN  After(n, modp_sub(m, self, n.base))

\* Sub<ModP> for ModPBase: ModP::new(self) - rhs
base_sub_modp(m, self, rhs) ==
    LET n == modp_new(m, self)
    IN  After(n, modp_sub(m, n.base, rhs))

\* Mul<ModPBase> for ModP: self * ModP::new(rhs)
modp_mul_base(m, self, rhs) ==
    LET n == modp_new(m, rhs)
    IN  After(n, modp_mul(m, self, n.base))

\* Mul<ModP> for ModPBase: ModP::new(self) * rhs.base()
base_mul_modp(m, self, rhs) ==
    LET n == modp_new(m, self)
    IN  After(n, modp_mul_base(m, n.base, rhs))

\* Div<ModPBase> for ModP: self * ModP::new(rhs).inv()
modp_div_base(m, self, rhs) ==
    LET n == modp_new(m, rhs)
        inverse == After(n, inv(m, n.base))
    IN  After(inverse, modp_mul(m, self, inverse.base))

\* Div<ModP> for ModPBase: ModP::new(self) * rhs.inv()
base_div_modp(m, self, rhs) ==
    LET n == modp_new(m, self)
        inverse == After(n, inv(m, rhs))
    IN  After(inverse, modp_mul(m, n.base, inverse.base))

\* the loop of Sum: ans += n.base()
RECURSIVE sum_bases(_, _)
sum_bases(ans, it) ==
    IF it = <<>> THEN ans
    ELSE LET total == ans.base + Head(it)
         IN  sum_bases(After(ans, Made(wrapping(ModPBaseBits, total),
                                       overflows(ModPBaseBits, total))),
                       Tail(it))

\* Sum for ModP: ModP::new(ans)
sum(m, it) ==
    LET ans == sum_bases(Made(0, FALSE), it)
    IN  After(ans, modp_new(m, ans.base))

\* the loop of Product: ans *= n
RECURSIVE product_loop(_, _, _)
product_loop(m, ans, it) ==
    IF it = <<>> THEN ans
    ELSE product_loop(m, After(ans, modp_mul(m, ans.base, Head(it))), Tail(it))

\* Product for ModP, from ModP::new_unchecked(1)
product(m, it) == product_loop(m, new_unchecked(m, 1), it)

----------------------------------------------------------------------------
\* the state machine of ModP

\* the largest of the small operands, and their distance from the largest word
MaxOperand == 1

\* the ModPBase operands: small ones, the largest ones, those around MODULUS
BaseOperands ==
    {n \in (0..MaxOperand) \cup ((ModPBaseMax - MaxOperand)..ModPBaseMax)
           \cup {MODULUS - 1, MODULUS, MODULUS + 1} : n >= 0}

\* the i64 operands: small ones of both signs and the two ends of the type
SignedOperands ==
    (-MaxOperand..MaxOperand) \cup {-(2^(ModPBaseBits - 1)), 2^(ModPBaseBits - 1) - 1}

Number(base) == [tag |-> "ModP", base |-> base]

NoNumber == [tag |-> "None"]

\* the numbers a sum or a product is taken of
MaxNumbers == 2

Numbers ==
    IF acc = NoNumber THEN {<<>>}
    ELSE SeqsUpTo({acc.base, modp_new(MODULUS, ModPBaseMax).base}, MaxNumbers)

ModPInit ==
    /\ NoForest
    /\ NoIterator
    /\ NoRange
    /\ overflow_checks \in BOOLEAN
    /\ MODULUS = 0
    /\ acc = NoNumber
    /\ modp_last = [op |-> "none"]

\* unsafe { ModP::set_mod(modulus) }, called before any use of ModP
SetMod(modulus) ==
    LET r == set_mod(overflow_checks, MODULUS, modulus)
    IN  /\ modp_last.op = "none"
        /\ acc = NoNumber
        /\ MODULUS' = r.MODULUS
        /\ acc' = NoNumber
        /\ modp_last' = [op |-> "set_mod", modulus |-> modulus, ret |-> r.ret,
                         MODULUS |-> MODULUS]
        /\ UNCHANGED <<overflow_checks, forest_vars, sets_vars, z_vars,
                       range_vars>>

\* a call that makes a number: it panics where the build says so, or
\* returns the number
Returns(op, lhs, rhs, r) ==
    LET panics == r.panic \/ (overflow_checks /\ r.overflow)
    IN  /\ modp_last.op = "none"
        /\ modp_last' = [op |-> op, lhs |-> lhs, rhs |-> rhs,
                         ret |-> IF panics THEN Panic ELSE Number(r.base),
                         overflow |-> r.overflow]
        /\ UNCHANGED <<overflow_checks, MODULUS, acc, forest_vars, sets_vars,
                       z_vars,
                       range_vars>>

\* the caller keeps the number the call returned, if it returned one, and
\* goes on to its next call
Keep ==
    /\ modp_last.op # "none"
    /\ acc' = IF modp_last.ret.tag = "ModP" THEN modp_last.ret ELSE acc
    /\ modp_last' = [op |-> "none"]
    /\ UNCHANGED <<overflow_checks, MODULUS, forest_vars, sets_vars, z_vars,
                   range_vars>>

ModPNew(n) == Returns("new", n, n, modp_new(MODULUS, n))

From(num) == Returns("from", num, num, from(MODULUS, num))

Neg ==
    /\ acc # NoNumber
    /\ Returns("neg", acc.base, acc.base, neg(MODULUS, acc.base))

Pow(exp) ==
    /\ acc # NoNumber
    /\ Returns("pow", acc.base, exp, pow(MODULUS, acc.base, exp))

Inv ==
    /\ acc # NoNumber
    /\ Returns("inv", acc.base, acc.base, inv(MODULUS, acc.base))

\* acc op rhs for another number rhs, made by ModP::new(n)
OfNumbers(n) ==
    /\ acc # NoNumber
    /\ LET rhs == modp_new(MODULUS, n).base
       IN  \/ Returns("add", acc.base, rhs, modp_add(MODULUS, acc.base, rhs))
           \/ Returns("sub", acc.base, rhs, modp_sub(MODULUS, acc.base, rhs))
           \/ Returns("mul", acc.base, rhs, modp_mul(MODULUS, acc.base, rhs))
           \/ Returns("div", acc.base, rhs, modp_div(MODULUS, acc.base, rhs))

\* acc op b and b op acc for a ModPBase b
Mixed(b) ==
    /\ acc # NoNumber
    /\ LET a == acc.base
           m == MODULUS
       IN  \/ Returns("add_base", a, b, modp_add_base(m, a, b))
           \/ Returns("base_add", b, a, base_add_modp(m, b, a))
           \/ Returns("sub_base", a, b, modp_sub_base(m, a, b))
           \/ Returns("base_sub", b, a, base_sub_modp(m, b, a))
           \/ Returns("mul_base", a, b, modp_mul_base(m, a, b))
           \/ Returns("base_mul", b, a, base_mul_modp(m, b, a))
           \/ Returns("div_base", a, b, modp_div_base(m, a, b))
           \/ Returns("base_div", b, a, base_div_modp(m, b, a))

Sum(it) == Returns("sum", it, it, sum(MODULUS, it))

Product(it) == Returns("product", it, it, product(MODULUS, it))

ModPNext ==
    \/ \E modulus \in 0..ModPModulusMax : SetMod(modulus)
    \/ \E n \in BaseOperands : ModPNew(n)
    \/ \E num \in SignedOperands : From(num)
    \/ Neg
    \/ \E exp \in BaseOperands : Pow(exp)
    \/ Inv
    \/ \E n \in BaseOperands : OfNumbers(n)
    \/ \E b \in BaseOperands : Mixed(b)
    \/ \E it \in Numbers : Sum(it)
    \/ \E it \in Numbers : Product(it)
    \/ Keep

SpecModP == ModPInit /\ [][ModPNext]_vars

----------------------------------------------------------------------------
\* to_range (src/src/range.rs)

\* The width of usize.  The program's is that of the machine, 32 or 64
\* bits; the model keeps it small enough to go through every bound.
UsizeBits == 3

UsizeMax == 2^UsizeBits - 1

Included(i) == [tag |-> "Included", val |-> i]

Excluded(i) == [tag |-> "Excluded", val |-> i]

Unbounded == [tag |-> "Unbounded"]

\* BoolExt::then of crate::option: Some(value) when the bool is true
then(cond, value) == IF cond THEN Some(value) ELSE None

\* `let start = match self.start_bound()`
start_of(bound) ==
    CASE bound.tag = "Included" -> [val |-> bound.val, overflow |-> FALSE]
      [] bound.tag = "Excluded" ->
            [val |-> wrapping(UsizeBits, bound.val + 1),
             overflow |-> overflows(UsizeBits, bound.val + 1)]
      [] bound.tag = "Unbounded" -> [val |-> 0, overflow |-> FALSE]

\* `let end = match self.end_bound()`
end_of(bound, len) ==
    CASE bound.tag = "Included" ->
            [val |-> wrapping(UsizeBits, bound.val + 1),
             overflow |-> overflows(UsizeBits, bound.val + 1)]
      [] bound.tag = "Excluded" -> [val |-> bound.val, overflow |-> FALSE]
      [] bound.tag = "Unbounded" -> [val |-> len, overflow |-> FALSE]

\* to_range: an overflowing `i+1` panics in a build with overflow checks
to_range(checks, start_bound, end_bound, len) ==
    LET start == start_of(start_bound)
        end   == end_of(end_bound, len)
    IN  IF checks /\ (start.overflow \/ end.overflow) THEN Panic
        ELSE then(start.val <= end.val /\ end.val <= len,
                  Range0(start.val, end.val))

Bounds == {Unbounded} \cup {Included(i) : i \in 0..UsizeMax}
                      \cup {Excluded(i) : i \in 0..UsizeMax}

Pending == [tag |-> "Pending"]

\* a pair of bounds and a len, to_range not yet called on them
RangeInit ==
    /\ NoForest
    /\ NoIterator
    /\ MODULUS = 0
    /\ acc = [tag |-> "None"]
    /\ modp_last = [op |-> "none"]
    /\ overflow_checks \in BOOLEAN
    /\ range_in \in [op : {"to_range"}, start_bound : Bounds,
                     end_bound : Bounds, len : 0..UsizeMax]
    /\ range_out = Pending

\* (start_bound, end_bound).to_range(len)
ToRange ==
    /\ range_in.op = "to_range"
    /\ range_out = Pending
    /\ range_out' = to_range(overflow_checks, range_in.start_bound,
                             range_in.end_bound, range_in.len)
    /\ UNCHANGED <<range_in, forest_vars, sets_vars, z_vars, modp_vars>>

RangeNext == ToRange

SpecRange == RangeInit /\ [][RangeNext]_vars

----------------------------------------------------------------------------
\* what the claims about ModP speak of

IsPrime(n) == n > 1 /\ \A d \in 2..(n - 1) : n % d # 0

\* the call that just returned made a number
MadeNumber ==
    /\ modp_last.op \notin {"none", "set_mod"}
    /\ modp_last.ret.tag = "ModP"

\* C21. ModP::set_mod(modulus) returns Ok(()) and stores modulus as MODULUS
\* if and only if modulus is a prime number, and returns Err for every
\* modulus that is not, 0 and 1 included, for every value of the modulus
\* type, its products divisor * divisor computed in the width of that type.
SetModAcceptsExactlyPrimes ==
    modp_last.op = "set_mod" =>
        IF IsPrime(modp_last.modulus)
        THEN /\ modp_last.ret = Ok("()")
             /\ MODULUS = modp_last.modulus
        ELSE /\ modp_last.ret.tag = "Err"
             /\ MODULUS = modp_last.MODULUS

\* C22. ModP range invariant: once a prime modulus m is set, every number
\* made by ModP::new, From, +, -, unary -, *, /, pow, inv, sum and product
\* has 0 <= base() < m.
ModPRangeInvariant ==
    /\ MODULUS = 0 \/ IsPrime(MODULUS)
    /\ MODULUS # 0 =>
          /\ MadeNumber => modp_last.ret.base \in 0..(MODULUS - 1)
          /\ acc # NoNumber => acc.base \in 0..(MODULUS - 1)

\* the negation of zero, under the largest modulus set_mod takes
ModPRangeWitness ==
    /\ MadeNumber
    /\ modp_last.op = "neg"
    /\ modp_last.lhs = 0
    /\ modp_last.ret = Number(0)
    /\ MODULUS > 2^(ModPModulusBits - 1)

\* C23. Overflow-free mixed arithmetic: with a prime modulus m set, for
\* every ModP a and every ModPBase b up to the largest, a + b, b + a, a - b,
\* a * b and b * a overflow no intermediate step and equal the mathematical
\* (a op b) mod m.
MixedArithmeticExact ==
    LET op == modp_last.op
        l  == modp_last.lhs
        r  == modp_last.rhs
        m  == MODULUS
    IN  (m # 0 /\ op \in {"add_base", "base_add", "sub_base", "mul_base",
                          "base_mul"}) =>
            /\ ~modp_last.overflow
            /\ modp_last.ret =
                  CASE op = "add_base" -> Number((l + r) % m)
                    [] op = "base_add" -> Number((l + r) % m)
                    [] op = "sub_base" -> Number((l - r) % m)
                    [] op = "mul_base" -> Number((l * r) % m)
                    [] op = "base_mul" -> Number((l * r) % m)

\* the largest ModPBase added to the largest number of a modulus above half
\* the modulus type
MixedArithmeticWitness ==
    /\ modp_last.op = "base_add"
    /\ modp_last.lhs = ModPBaseMax
    /\ modp_last.rhs = MODULUS - 1
    /\ MODULUS > 2^(ModPModulusBits - 1)
    /\ modp_last.ret.tag = "ModP"

----------------------------------------------------------------------------
\* what the claim about to_range speaks of

\* the bounds as the claim normalizes them, in unbounded arithmetic
NormalStart(bound) ==
    CASE bound.tag = "Included" -> bound.val
      [] bound.tag = "Excluded" -> bound.val + 1
      [] bound.tag = "Unbounded" -> 0

NormalEnd(bound, len) ==
    CASE bound.tag = "Included" -> bound.val + 1
      [] bound.tag = "Excluded" -> bound.val
      [] bound.tag = "Unbounded" -> len

\* C24. to_range(len) returns Some(start..end) if and only if the
\* normalized bounds satisfy start <= end <= len, and None otherwise, so
\* that every returned range slices a sequence of length len or more; for
\* all bounds of the machine word, the largest included.
ToRangeContract ==
    range_out # Pending =>
        LET start == NormalStart(range_in.start_bound)
            end   == NormalEnd(range_in.end_bound, range_in.len)
        IN  IF start <= end /\ end <= range_in.len
            THEN range_out = Some(Range0(start, end))
            ELSE range_out = None

----------------------------------------------------------------------------
\* what the claims about update_state speak of

\* s[l..r], with positions counted from 0
Slice(s, l, r) == SubSeq(s, l + 1, r)

\* the z_box [l, r) lies within the sequence and spells a prefix of it
IsZBox(s, zb) ==
    /\ zb.start <= zb.end
    /\ zb.end <= Len(s)
    /\ Slice(s, zb.start, zb.end) = Slice(s, 0, zb.end - zb.start)

\* C26. Z-box invariant: after every update_state step the z_box [l, r) has
\* r <= len(sequence) and sequence[l..r] == sequence[0..r-l], and z_box.end
\* never decreases from one step to the next.
ZBoxInvariant ==
    /\ IsZBox(Sequence, z_box)
    /\ \A i \in 1..Len(z_steps) :
          /\ IsZBox(Sequence, z_steps[i].z_box_after)
          /\ z_steps[i].z_box.end <= z_steps[i].z_box_after.end

\* a step inside the z_box compared further elements and moved the z_box to
\* a later start and a later end
ZBoxWitness ==
    \E i \in 1..Len(z_steps) :
        LET step == z_steps[i]
        IN  /\ step.z_box.end > Len(step.z_table)
            /\ step.z_box_after.start > step.z_box.start
            /\ step.z_box_after.end > step.z_box.end

\* every unchecked access of an update_state call on (s, zb, zt) is in
\* bounds
AccessesInBounds(s, zb, zt) ==
    LET index == Len(zt)
        mirror == index - zb.start
    IN  index < Len(s) =>
            /\ zb.end <= Len(s)
            /\ zb.end > index =>
                  /\ zb.end - index <= Len(s)
                  /\ 1 <= mirror
                  /\ mirror < Len(zt)

\* C30. Unchecked accesses are in bounds: in every update_state call that
\* does not return at once, index < len(text), z_box.end <= len(text),
\* z_box.end - index <= len(text) and the mirror position
\* index - z_box.start is at least 1 and less than len(z_table), for both
\* iterators and for the warm-up of ZMatchIndices.
UncheckedInBounds ==
    /\ iter = "ZMatchIndices" => ~z_match_indices(z_in.text, z_in.pattern).ub
    /\ \A i \in 1..Len(z_steps) :
          AccessesInBounds(Sequence, z_steps[i].z_box, z_steps[i].z_table)
    /\ AccessesInBounds(Sequence, z_box, z_table)
    /\ ~update_state(Sequence, z_box, z_table).ub

\* past its warm-up, ZMatchIndices read a mirror position and then both
\* unchecked slices
UncheckedWitness ==
    /\ iter = "ZMatchIndices"
    /\ \E i \in 1..Len(z_steps) :
          LET step == z_steps[i]
          IN  /\ Len(step.z_table) > pattern_len + 1
              /\ step.z_box.end > Len(step.z_table)
              /\ step.z_box_after # step.z_box

----------------------------------------------------------------------------
\* what the claim about the two forests speaks of

\* C29. The two variants agree: for every sequence of add, unite, set_eq
\* and len_of calls made on a HashUnionFindSets of
\* hash_union_find_sets.rs (nodes compared by identity) and on one of
\* sets.rs (nodes compared by their stored key), each call returns the same
\* value from both, and count and items_len return the same from both
\* after it.
VariantsAgree ==
    /\ sets_last = last.ret
    /\ sets_count_of(sets_count, sets_items) = count(set_count, items)
    /\ sets_items_len(sets_count, sets_items) = items_len(set_count, items)

\* both variants compared the one root that two different keys share,
\* reached from one of them over two parent links
VariantsWitness ==
    /\ last.op = "unite"
    /\ last.item1 # last.item2
    /\ sets_last = Ok(FALSE)
    /\ Depth(prev.items, last.item1) = 2

====
